---- MODULE Spec2Model ----
(***************************************************************************)
(* Verification model of the topology-construction routines of the        *)
(* modflow6-examples scripts:                                              *)
(*   - get_lake_connection_data / build_mf6gwf (ex-gwt-prudic2004t2.py)    *)
(*   - get_stream_data                       (ex-gwt-prudic2004t2.py)      *)
(*   - scenario / simulation / main      (the three example scripts)      *)
(*   - build_model, add_flow, add_transport  (ex-gwt-gwtgwt-p10.py)        *)
(*   - the rst editing loop                  (ci_create_examples_rst.py)   *)
(* Lengths are integers in units of 0.0005 ft so that delr/2 and delc/2    *)
(* are exact.                                                              *)
(***************************************************************************)
EXTENDS Integers, Sequences, FiniteSets, TLC

VARIABLES
    lakibd,             \* lake-membership grid, [Cells -> 0..NLakes]
    idomain,            \* layer 0 of the global idomain, [Cells -> {0,1}]
    arg_idomain,        \* layer 0 of the idomain handed to the last call
    lakeconnectiondata, \* returned list of connection records
    origin,             \* per record: <<i, j, branch>> of the emitting cell
    nlakecon,           \* returned per-lake counts
    lakpackagedata,     \* build_mf6gwf's lake package records
    lpc                 \* "init" before the first build_mf6gwf, then "built"

VARIABLES
    streamdata,             \* the reach table: sequence of [seg, length]
    connectiondata,         \* connectiondata[r + 1] is the list of reach r
    isegold,                \* segment index of the previous reach
    distance,               \* running midpoint distance (-1: not yet bound)
    distance_along_segment, \* per reach, the distance appended at line 205
    packagedata,            \* returned list of reach records
    spc                     \* position in get_stream_data

VARIABLES
    frames              \* the locals of the running invocations of
                        \* get_lake_connection_data: [n, acc] per caller

VARIABLES
    script,             \* the script that is executed
    cfg,                \* the flags of the config module, asserts on or off
    opc,                \* position in scenario / simulation / main
    sims,               \* what build_model returned: "sims" or "None"
    success,            \* the flag returned by run_model
    printed,            \* number of diagnostic buffers printed
    solver,             \* the success flags the solver runs reported
    steps               \* the functions invoked so far, in order

VARIABLES
    buildModel,         \* config.buildModel of ex-gwt-gwtgwt-p10
    gpc,                \* position in build_model of ex-gwt-gwtgwt-p10
    bstep,              \* index of the running step of build_model
    chdspd,             \* constant-head list of add_outer_gwfmodel
    exgdata,            \* the global exchange list, "None" at import
    gwfgwf,             \* arguments of the GWF-GWF exchange package
    gwtgwt              \* arguments of the GWT-GWT exchange package

VARIABLES
    lines,              \* the pandoc output of the current example
    idx,                \* index of the next line of the editing loop
    write_line,         \* the write flag
    in_reference,       \* the references flag
    written,            \* what f.write has received, in order
    exno                \* number of the current example, from 1

lakevars == <<lakibd, idomain, arg_idomain, lakeconnectiondata, origin,
              nlakecon, lakpackagedata, lpc>>

streamvars == <<streamdata, connectiondata, isegold, distance,
                distance_along_segment, packagedata, spc>>

runvars == <<script, cfg, opc, sims, success, printed, solver, steps>>

gridvars == <<buildModel, gpc, bstep, chdspd, exgdata, gwfgwf, gwtgwt>>

rstvars == <<lines, idx, write_line, in_reference, written, exno>>

vars == <<lakevars, streamvars, frames, runvars, gridvars, rstvars>>

----------------------------------------------------------------------------
(* Bounds of the model *)

\* grid rows (the script uses 36)
nrow == 3
\* grid columns (the script uses 23)
ncol == 3
\* maximal runs of equal segment ids in an input reach table
MaxRuns == 5

----------------------------------------------------------------------------
(* Program constants *)

NLakes == 2
\* 405.665 ft in units of 0.0005 ft
delr == 811330
\* 403.717 ft in units of 0.0005 ft
delc == 807434
lakebed_leakance == 1

Cells == (0 .. nrow - 1) \X (0 .. ncol - 1)

\* no invocation of get_lake_connection_data under way
FramesIdle == frames = <<>>

\* no script started
RunIdle ==
    /\ script = "none"
    /\ cfg = <<>>
    /\ opc = "idle"
    /\ sims = "None"
    /\ success = FALSE
    /\ printed = 0
    /\ solver = <<>>
    /\ steps = <<>>

\* the value None of a name that holds None or a list
None == [isNone |-> TRUE, items |-> <<>>]

\* a list held by such a name
PyList(q) == [isNone |-> FALSE, items |-> q]

\* an exchange package that was not created
NoPackage == [built |-> FALSE, nexg |-> 0, exchangedata |-> <<>>]

\* an exchange package created with nexg=len(data), exchangedata=data
Package(data) == [built |-> TRUE, nexg |-> Len(data), exchangedata |-> data]

\* build_model of ex-gwt-gwtgwt-p10 not called: the module-level
\* "exgdata = None" holds
GridIdle ==
    /\ buildModel = FALSE
    /\ gpc = "idle"
    /\ bstep = 0
    /\ chdspd = <<>>
    /\ exgdata = None
    /\ gwfgwf = NoPackage
    /\ gwtgwt = NoPackage

\* no example file under edit
RstIdle ==
    /\ lines = <<>>
    /\ idx = 0
    /\ write_line = TRUE
    /\ in_reference = FALSE
    /\ written = <<>>
    /\ exno = 0

----------------------------------------------------------------------------
(* get_lake_connection_data *)

\* indexing a Python list of n items with i: -n .. n - 1 are valid, a
\* negative index counts from the end
ListIndexOk(i, n) == -n <= i /\ i < n

ListIndex(i, n) == IF i < 0 THEN i + n ELSE i

\* a connection record as the list built at lines 108-118
ConnRec(ilak, iconn, cellid, claktype, connlen, connwidth) ==
    [ilak |-> ilak, iconn |-> iconn, cellid |-> cellid,
     claktype |-> claktype, bedleak |-> lakebed_leakance,
     belev |-> 0, telev |-> 0, connlen |-> connlen, connwidth |-> connwidth]

\* Emit numbering the records with one counter for all lakes
Emit_GlobalIndex(acc, ilak, src, tag, cellid, claktype, connlen, connwidth) ==
    IF acc.raised THEN acc
    ELSE IF ~ListIndexOk(ilak, NLakes) THEN [acc EXCEPT !.raised = TRUE]
    ELSE
    [lakeconnectiondata |->
        Append(acc.lakeconnectiondata,
               ConnRec(ilak, Len(acc.lakeconnectiondata), cellid, claktype,
                       connlen, connwidth)),
     nlakecon |-> [acc.nlakecon EXCEPT ![ListIndex(ilak, NLakes)] = @ + 1],
     origin |-> Append(acc.origin, <<src[1], src[2], tag>>),
     raised |-> FALSE]

\* h/v = [...]; nlakecon[ilak] += 1; lakeconnectiondata.append(h)
\* nlakecon[ilak] raises IndexError when ilak has no slot; once raised,
\* nothing more of the call is executed
Emit(acc, ilak, src, tag, cellid, claktype, connlen, connwidth) ==
    IF acc.raised THEN acc
    ELSE IF ~ListIndexOk(ilak, NLakes) THEN [acc EXCEPT !.raised = TRUE]
    ELSE
    [lakeconnectiondata |->
        Append(acc.lakeconnectiondata,
               ConnRec(ilak, acc.nlakecon[ListIndex(ilak, NLakes)], cellid,
                       claktype, connlen, connwidth)),
     nlakecon |-> [acc.nlakecon EXCEPT ![ListIndex(ilak, NLakes)] = @ + 1],
     origin |-> Append(acc.origin, <<src[1], src[2], tag>>),
     raised |-> FALSE]

BackCond(lak, idom, i, j) ==
    i > 0 /\ lak[<<i - 1, j>>] = 0 /\ idom[<<i - 1, j>>] # 0

LeftCond(lak, idom, i, j) ==
    j > 0 /\ lak[<<i, j - 1>>] # 0 /\ idom[<<i, j - 1>>] = 0

RightCond(lak, idom, i, j) ==
    j < ncol - 1 /\ lak[<<i, j + 1>>] = 0 /\ idom[<<i, j + 1>>] # 0

FrontCond(lak, idom, i, j) ==
    i < nrow - 1 /\ lak[<<i + 1, j>>] = 0 /\ idom[<<i + 1, j>>] # 0

BackEmit(acc, ilak, i, j) ==
    Emit(acc, ilak, <<i, j>>, "back", <<0, i - 1, j>>, "horizontal",
         delc \div 2, delr)

LeftEmit(acc, ilak, i, j) ==
    Emit(acc, ilak, <<i, j>>, "left", <<0, i, j - 1>>, "horizontal",
         delr \div 2, delc)

RightEmit(acc, ilak, i, j) ==
    Emit(acc, ilak, <<i, j>>, "right", <<0, i, j + 1>>, "horizontal",
         delr \div 2, delc)

\* FrontEmit with the length pair of a column neighbour
FrontEmit_Swapped(acc, ilak, i, j) ==
    Emit(acc, ilak, <<i, j>>, "front", <<0, i + 1, j>>, "horizontal",
         delr \div 2, delc)

FrontEmit(acc, ilak, i, j) ==
    Emit(acc, ilak, <<i, j>>, "front", <<0, i + 1, j>>, "horizontal",
         delc \div 2, delr)

\* VerticalEmit targeting the lake cell itself instead of the cell below
VerticalEmit_Layer0(acc, ilak, i, j) ==
    Emit(acc, ilak, <<i, j>>, "vertical", <<0, i, j>>, "vertical", 0, 0)

VerticalEmit(acc, ilak, i, j) ==
    Emit(acc, ilak, <<i, j>>, "vertical", <<1, i, j>>, "vertical", 0, 0)

\* the body of the double loop for cell (i, j)
LakeCell(lak, idom, i, j, acc) ==
    IF lak[<<i, j>>] = 0 THEN acc
    ELSE
      LET ilak == lak[<<i, j>>] - 1
          a1 == IF BackCond(lak, idom, i, j)
                THEN BackEmit(acc, ilak, i, j) ELSE acc
          a2 == IF LeftCond(lak, idom, i, j)
                THEN LeftEmit(a1, ilak, i, j) ELSE a1
          a3 == IF RightCond(lak, idom, i, j)
                THEN RightEmit(a2, ilak, i, j) ELSE a2
          a4 == IF FrontCond(lak, idom, i, j)
                THEN FrontEmit(a3, ilak, i, j) ELSE a3
      IN VerticalEmit(a4, ilak, i, j)

\* for i in range(nrow): for j in range(ncol): ...  (n = i * ncol + j)
RECURSIVE LakeScan(_, _, _, _)
LakeScan(lak, idom, n, acc) ==
    IF n >= nrow * ncol THEN acc
    ELSE LakeScan(lak, idom, n + 1,
                  LakeCell(lak, idom, n \div ncol, n % ncol, acc))

get_lake_connection_data(lak, idom) ==
    LakeScan(lak, idom, 0,
             [lakeconnectiondata |-> <<>>,
              nlakecon |-> [l \in 0 .. NLakes - 1 |-> 0],
              origin |-> <<>>,
              raised |-> FALSE])

----------------------------------------------------------------------------
(* build_mf6gwf: the lake part, lines 320-328 *)

\* i, j = np.where(lakibd > 0); idomain[0, i, j] = 0
DeactivateLakeCells(lak, idom) ==
    [c \in Cells |-> IF lak[c] > 0 THEN 0 ELSE idom[c]]

\* LakPackageData passing the first lake's count for both lakes
LakPackageData_FirstCount(cnt) ==
    << [lakeno |-> 0, strt |-> 440, nlakeconn |-> cnt[0], boundname |-> "lake1"],
       [lakeno |-> 1, strt |-> 352, nlakeconn |-> cnt[0], boundname |-> "lake2"] >>

\* [[0, 44.0, nlakecon[0], "lake1"], [1, 35.2, nlakecon[1], "lake2"]]
LakPackageData(cnt) ==
    << [lakeno |-> 0, strt |-> 440, nlakeconn |-> cnt[0], boundname |-> "lake1"],
       [lakeno |-> 1, strt |-> 352, nlakeconn |-> cnt[1], boundname |-> "lake2"] >>

\* an IndexError of get_lake_connection_data leaves build_mf6gwf at line
\* 321: nothing is returned and the lake cells stay as they were
BuildMf6gwf ==
    /\ lpc # "raised"
    /\ \E r \in {get_lake_connection_data(lakibd, idomain)} :
          /\ arg_idomain' = idomain
          /\ IF r.raised
             THEN /\ lpc' = "raised"
                  /\ UNCHANGED <<lakeconnectiondata, origin, nlakecon,
                                 idomain, lakpackagedata>>
             ELSE /\ lakeconnectiondata' = r.lakeconnectiondata
                  /\ origin' = r.origin
                  /\ nlakecon' = r.nlakecon
                  /\ idomain' = DeactivateLakeCells(lakibd, idomain)
                  /\ lakpackagedata' = LakPackageData(r.nlakecon)
                  /\ lpc' = "built"
    /\ UNCHANGED lakibd
    /\ UNCHANGED <<streamvars, frames, runvars, gridvars, rstvars>>

\* what an input grid holds in one cell: <<lakibd value, idomain value>>
CellKinds == (0 .. NLakes) \X {0, 1}

\* c0 and its in-bounds planar neighbours
Plus(c0) ==
    {c \in Cells : (c[1] - c0[1]) * (c[1] - c0[1])
                    + (c[2] - c0[2]) * (c[2] - c0[2]) <= 1}

\* the input grids: every assignment of lake membership and activity to
\* one cell and its neighbours, the other cells active and not a lake
LakeInit ==
    /\ \E c0 \in Cells : \E f \in [Plus(c0) -> CellKinds] :
          /\ lakibd = [c \in Cells |-> IF c \in Plus(c0) THEN f[c][1] ELSE 0]
          /\ idomain = [c \in Cells |-> IF c \in Plus(c0) THEN f[c][2] ELSE 1]
    /\ arg_idomain = idomain
    /\ lakeconnectiondata = <<>>
    /\ origin = <<>>
    /\ nlakecon = [l \in 0 .. NLakes - 1 |-> 0]
    /\ lakpackagedata = <<>>
    /\ lpc = "init"

\* get_stream_data not entered
StreamIdle ==
    /\ streamdata = <<>>
    /\ connectiondata = <<>>
    /\ isegold = -1
    /\ distance = -1
    /\ distance_along_segment = <<>>
    /\ packagedata = <<>>
    /\ spc = "idle"

Init == LakeInit /\ StreamIdle /\ FramesIdle /\ RunIdle /\ GridIdle /\ RstIdle

\* the values a cell of lakibd.dat can hold beyond 0 .. NLakes: a lake
\* number without a count slot and negative numbers
LakValues == -2 .. NLakes + 1

\* input grids with arbitrary integers in one cell and its neighbours, on
\* a fully active domain
LakeAnyInit ==
    /\ \E c0 \in Cells : \E f \in [Plus(c0) -> LakValues] :
          lakibd = [c \in Cells |-> IF c \in Plus(c0) THEN f[c] ELSE 0]
    /\ idomain = [c \in Cells |-> 1]
    /\ arg_idomain = idomain
    /\ lakeconnectiondata = <<>>
    /\ origin = <<>>
    /\ nlakecon = [l \in 0 .. NLakes - 1 |-> 0]
    /\ lakpackagedata = <<>>
    /\ lpc = "init"
    /\ StreamIdle /\ FramesIdle /\ RunIdle /\ GridIdle /\ RstIdle

Next == BuildMf6gwf

Spec == Init /\ [][Next]_vars

SpecLakeAny == LakeAnyInit /\ [][Next]_vars

----------------------------------------------------------------------------
(* get_lake_connection_data called twice on the same grids, the calls
   advancing in any order (lines 95-183) *)

\* the two calls
Callers == {1, 2}

\* the locals of a call at entry: lakeconnectiondata = [],
\* nlakecon = [0, 0], the scan at cell 0 (lines 96-99)
FrameEntry ==
    [n |-> 0,
     acc |-> [lakeconnectiondata |-> <<>>,
              nlakecon |-> [l \in 0 .. NLakes - 1 |-> 0],
              origin |-> <<>>,
              raised |-> FALSE]]

\* FrameStep with nlakecon a list that all the calls share
FrameStep_SharedCounts(fs, p, lak, idom) ==
    LET a == LakeCell(lak, idom, fs[p].n \div ncol, fs[p].n % ncol, fs[p].acc)
    IN [q \in DOMAIN fs |->
          IF q = p THEN [n |-> fs[p].n + 1, acc |-> a]
          ELSE [fs[q] EXCEPT !.acc.nlakecon = a.nlakecon]]

\* one pass of the loop body (lines 100-182) in call p: the cell is read
\* from lakibd and idomain, the records go to the call's own lists
FrameStep(fs, p, lak, idom) ==
    LET a == LakeCell(lak, idom, fs[p].n \div ncol, fs[p].n % ncol, fs[p].acc)
    IN [fs EXCEPT ![p] = [n |-> fs[p].n + 1, acc |-> a]]

\* call p has reached "return lakeconnectiondata, nlakecon" (line 183)
Returned(p) == frames[p].n = nrow * ncol

InvocationStep(p) ==
    /\ ~Returned(p)
    /\ frames' = FrameStep(frames, p, lakibd, idomain)
    /\ UNCHANGED <<lakevars, streamvars, runvars, gridvars, rstvars>>

\* the grids of LakeInit around the first row's last cell, both calls
\* entered
LakeTwoInit ==
    /\ \E f \in [Plus(<<0, ncol - 1>>) -> CellKinds] :
          /\ lakibd = [c \in Cells |->
                         IF c \in Plus(<<0, ncol - 1>>) THEN f[c][1] ELSE 0]
          /\ idomain = [c \in Cells |->
                         IF c \in Plus(<<0, ncol - 1>>) THEN f[c][2] ELSE 1]
    /\ arg_idomain = idomain
    /\ lakeconnectiondata = <<>>
    /\ origin = <<>>
    /\ nlakecon = [l \in 0 .. NLakes - 1 |-> 0]
    /\ lakpackagedata = <<>>
    /\ lpc = "init"
    /\ StreamIdle /\ RunIdle /\ GridIdle /\ RstIdle
    /\ frames = [p \in Callers |-> FrameEntry]

LakeTwoNext == \E p \in Callers : InvocationStep(p)

SpecLakeTwo == LakeTwoInit /\ [][LakeTwoNext]_vars

----------------------------------------------------------------------------
(* get_stream_data *)

\* segment ids of the table: for iseg in [1, 2, 3, 4]
NSeg == 4

\* number of reaches of the k-th run of an input table: the runs end at
\* reaches 6, 17, 30, 31 and 37, later runs hold one reach each
RunLayout == <<7, 11, 13, 1, 6>>

RunLen(k) == IF k <= Len(RunLayout) THEN RunLayout[k] ELSE 1

\* reach lengths in units of 0.0005 ft, assigned to the reaches in turn:
\* 10 ft, 20 ft, 30 ft, or all zero
LengthCycles == {<<20000, 40000, 60000>>, <<0, 0, 0>>}

\* Python list indexing: a negative index counts from the end
PyIdx(i, n) == IF i < 0 THEN i + n ELSE i

\* connectiondata[r].append(v)
ListAppend(cd, r, v) == [cd EXCEPT ![PyIdx(r, Len(cd)) + 1] = Append(@, v)]

\* streamdata["length"][r] * 0.5
HalfLength(sd, r) == sd[PyIdx(r, Len(sd)) + 1].length \div 2

\* AutoBody that goes on accumulating the distance across a segment change
AutoBody_NoRestart(sd, ireach, acc) ==
    LET iseg == sd[ireach + 1].seg - 1 IN
    IF iseg = acc.isegold
    THEN LET cd1 == ListAppend(acc.connectiondata, ireach, ireach - 1)
             cd2 == ListAppend(cd1, ireach - 1, -ireach)
             d == acc.distance + HalfLength(sd, ireach - 1)
                               + HalfLength(sd, ireach)
         IN [connectiondata |-> cd2, isegold |-> iseg, distance |-> d,
             distance_along_segment |-> Append(acc.distance_along_segment, d)]
    ELSE LET d == IF ireach = 0 THEN HalfLength(sd, ireach)
                  ELSE acc.distance + HalfLength(sd, ireach - 1)
                                    + HalfLength(sd, ireach)
         IN [connectiondata |-> acc.connectiondata, isegold |-> iseg,
             distance |-> d,
             distance_along_segment |-> Append(acc.distance_along_segment, d)]

\* AutoBody without the downstream entry of the previous reach
AutoBody_NoDownstream(sd, ireach, acc) ==
    LET iseg == sd[ireach + 1].seg - 1 IN
    IF iseg = acc.isegold
    THEN LET cd1 == ListAppend(acc.connectiondata, ireach, ireach - 1)
             d == acc.distance + HalfLength(sd, ireach - 1)
                               + HalfLength(sd, ireach)
         IN [connectiondata |-> cd1, isegold |-> iseg, distance |-> d,
             distance_along_segment |-> Append(acc.distance_along_segment, d)]
    ELSE LET d == HalfLength(sd, ireach)
         IN [connectiondata |-> acc.connectiondata, isegold |-> iseg,
             distance |-> d,
             distance_along_segment |-> Append(acc.distance_along_segment, d)]

\* the body of the loop of lines 193-205 for reach ireach
AutoBody(sd, ireach, acc) ==
    LET iseg == sd[ireach + 1].seg - 1 IN
    IF iseg = acc.isegold
    THEN LET cd1 == ListAppend(acc.connectiondata, ireach, ireach - 1)
             cd2 == ListAppend(cd1, ireach - 1, -ireach)
             d == acc.distance + HalfLength(sd, ireach - 1)
                               + HalfLength(sd, ireach)
         IN [connectiondata |-> cd2, isegold |-> iseg, distance |-> d,
             distance_along_segment |-> Append(acc.distance_along_segment, d)]
    ELSE LET d == HalfLength(sd, ireach)
         IN [connectiondata |-> acc.connectiondata, isegold |-> iseg,
             distance |-> d,
             distance_along_segment |-> Append(acc.distance_along_segment, d)]

\* for ireach, row in enumerate(streamdata): ...
RECURSIVE AutoLoop(_, _, _)
AutoLoop(sd, ireach, acc) ==
    IF ireach >= Len(sd) THEN acc
    ELSE AutoLoop(sd, ireach + 1, AutoBody(sd, ireach, acc))

\* lines 190-205: the automatic pass over the table
AutoPass ==
    /\ spc = "start"
    /\ LET r == AutoLoop(streamdata, 0,
                         [connectiondata |-> connectiondata,
                          isegold |-> isegold, distance |-> distance,
                          distance_along_segment |-> distance_along_segment])
       IN /\ connectiondata' = r.connectiondata
          /\ isegold' = r.isegold
          /\ distance' = r.distance
          /\ distance_along_segment' = r.distance_along_segment
    /\ spc' = "auto"
    /\ UNCHANGED <<streamdata, packagedata>>
    /\ UNCHANGED <<lakevars, frames, runvars, gridvars, rstvars>>

\* ManualAppend without the upstream entry 17 of reach 31
ManualAppend_OneWay(cd) ==
    LET c1 == ListAppend(cd, 17, -31)
        c3 == ListAppend(c1, 30, -31)
    IN ListAppend(c3, 31, 30)

\* ManualAppend giving reach 30 its own index instead of reach 31's
ManualAppend_Misplaced(cd) ==
    LET c1 == ListAppend(cd, 17, -31)
        c2 == ListAppend(c1, 31, 17)
        c3 == ListAppend(c2, 30, -30)
    IN ListAppend(c3, 31, 30)

\* lines 207-210 on a table that has reaches 17, 30 and 31
ManualAppend(cd) ==
    LET c1 == ListAppend(cd, 17, -31)
        c2 == ListAppend(c1, 31, 17)
        c3 == ListAppend(c2, 30, -31)
    IN ListAppend(c3, 31, 30)

\* lines 207-210: connectiondata[31] raises IndexError on a table of fewer
\* than 32 reaches, after connectiondata[17] was extended if it exists
ManualLinks ==
    /\ spc = "auto"
    /\ IF Len(connectiondata) >= 32
       THEN /\ connectiondata' = ManualAppend(connectiondata)
            /\ spc' = "manual"
       ELSE /\ connectiondata' = IF Len(connectiondata) >= 18
                                 THEN ListAppend(connectiondata, 17, -31)
                                 ELSE connectiondata
            /\ spc' = "raised"
    /\ UNCHANGED <<streamdata, isegold, distance, distance_along_segment,
                   packagedata>>
    /\ UNCHANGED <<lakevars, frames, runvars, gridvars, rstvars>>

\* (emax, emin) of the four segments, in tenths of a foot:
\* [(49, 45), (44.5, 34), (41.5, 34.0), (34.0, 27.2)]
emaxmin == << <<490, 450>>, <<445, 340>>, <<415, 340>>, <<340, 272>> >>

\* 5.0 ft
stream_width == 5
\* 1.0 ft
streambed_thick == 1
\* 100.0 ft/d
streambed_k == 100
\* 0.03, in hundredths
manning == 3

\* float64 division a / b of numpy scalars, a >= 0 and b >= 0: a quotient
\* is kept as the exact fraction, a zero divisor gives inf or nan (numpy
\* warns and goes on)
FDiv(a, b) ==
    IF b # 0 THEN [k |-> "fin", num |-> a, den |-> b]
    ELSE IF a = 0 THEN [k |-> "nan", num |-> 0, den |-> 0]
    ELSE [k |-> "inf", num |-> 0, den |-> 0]

\* x * c for a constant c > 0
FScale(x, c) == IF x.k = "fin" THEN [x EXCEPT !.num = @ * c] ELSE x

\* c - x for a constant c
FSubFrom(c, x) ==
    IF x.k = "fin" THEN [x EXCEPT !.num = c * x.den - @]
    ELSE IF x.k = "inf" THEN [x EXCEPT !.k = "-inf"]
    ELSE x

\* streamdata["length"][np.where(streamdata["seg"] == iseg)].sum()
RECURSIVE SegmentLength(_, _, _)
SegmentLength(sd, iseg, n) ==
    IF n = 0 THEN 0
    ELSE SegmentLength(sd, iseg, n - 1)
           + (IF sd[n].seg = iseg THEN sd[n].length ELSE 0)

\* lines 213-216
SegmentLengths(sd) == [iseg \in 1 .. NSeg |-> SegmentLength(sd, iseg, Len(sd))]

\* lines 218-220: (emax - emin) / segment_lengths[iseg]
SegmentGradients(sl) ==
    [iseg \in 1 .. NSeg |->
        FDiv(emaxmin[iseg][1] - emaxmin[iseg][2], sl[iseg])]

\* ReachTop interpolating upward from the bottom elevation
ReachTop_FromBottom(sd, das, sl, ireach) ==
    LET iseg == sd[ireach + 1].seg - 1
        emax == emaxmin[PyIdx(iseg, NSeg) + 1][1]
        emin == emaxmin[PyIdx(iseg, NSeg) + 1][2]
        x == FScale(FDiv(das[ireach + 1], sl[PyIdx(iseg, NSeg) + 1]),
                    emax - emin)
    IN IF x.k = "fin" THEN [x EXCEPT !.num = emin * x.den + @] ELSE x

\* lines 229-234: emax - distance / segment length * (emax - emin)
ReachTop(sd, das, sl, ireach) ==
    LET iseg == sd[ireach + 1].seg - 1
        emax == emaxmin[PyIdx(iseg, NSeg) + 1][1]
        emin == emaxmin[PyIdx(iseg, NSeg) + 1][2]
    IN FSubFrom(emax,
                FScale(FDiv(das[ireach + 1],
                            sl[PyIdx(iseg, NSeg) + 1]),
                       emax - emin))

\* PackageRec counting the leading self index as a connection
PackageRec_CountSelf(sd, cd, das, sl, ireach) ==
    LET iseg == sd[ireach + 1].seg - 1 IN
    [rno |-> ireach, rlen |-> sd[ireach + 1].length, rwid |-> stream_width,
     rgrd |-> SegmentGradients(sl)[PyIdx(iseg, NSeg) + 1],
     rtp |-> ReachTop(sd, das, sl, ireach),
     rbth |-> streambed_thick, rhk |-> streambed_k, man |-> manning,
     ncon |-> Len(cd[ireach + 1]),
     ustrf |-> 1, ndv |-> 0, boundname |-> <<"SEG", iseg + 1>>]

\* lines 223-250: the record of reach ireach (the cell (k, i, j) is copied
\* from the table and left out)
PackageRec(sd, cd, das, sl, ireach) ==
    LET iseg == sd[ireach + 1].seg - 1 IN
    [rno |-> ireach, rlen |-> sd[ireach + 1].length, rwid |-> stream_width,
     rgrd |-> SegmentGradients(sl)[PyIdx(iseg, NSeg) + 1],
     rtp |-> ReachTop(sd, das, sl, ireach),
     rbth |-> streambed_thick, rhk |-> streambed_k, man |-> manning,
     ncon |-> Len(cd[ireach + 1]) - 1,
     ustrf |-> 1, ndv |-> 0, boundname |-> <<"SEG", iseg + 1>>]

\* lines 211-253: the geometry pass and the return
PackageData ==
    /\ spc = "manual"
    /\ \E segment_lengths \in {SegmentLengths(streamdata)} :
       packagedata' = [k \in 1 .. Len(streamdata) |->
                          PackageRec(streamdata, connectiondata,
                                     distance_along_segment,
                                     segment_lengths, k - 1)]
    /\ spc' = "done"
    /\ UNCHANGED <<streamdata, connectiondata, isegold, distance,
                   distance_along_segment>>
    /\ UNCHANGED <<lakevars, frames, runvars, gridvars, rstvars>>

\* the segment ids of the table whose k-th run has segment id runs[k]
RECURSIVE Expand(_)
Expand(runs) ==
    IF runs = <<>> THEN <<>>
    ELSE Expand(SubSeq(runs, 1, Len(runs) - 1))
           \o [k \in 1 .. RunLen(Len(runs)) |-> runs[Len(runs)]]

StreamTable(runs, cyc) ==
    LET segs == Expand(runs)
    IN [k \in 1 .. Len(segs) |->
           [seg |-> segs[k], length |-> cyc[((k - 1) % 3) + 1]]]

\* build_mf6gwf not entered, on a grid without lakes
LakeIdle ==
    /\ lakibd = [c \in Cells |-> 0]
    /\ idomain = [c \in Cells |-> 1]
    /\ arg_idomain = idomain
    /\ lakeconnectiondata = <<>>
    /\ origin = <<>>
    /\ nlakecon = [l \in 0 .. NLakes - 1 |-> 0]
    /\ lakpackagedata = <<>>
    /\ lpc = "init"

\* the state after line 192, for every input table
StreamInit ==
    /\ LakeIdle /\ FramesIdle /\ RunIdle /\ GridIdle /\ RstIdle
    /\ \E n \in 1 .. MaxRuns : \E runs \in [1 .. n -> 1 .. NSeg] :
         \E cyc \in LengthCycles :
            streamdata = StreamTable(runs, cyc)
    /\ connectiondata = [k \in 1 .. Len(streamdata) |-> <<k - 1>>]
    /\ isegold = -1
    /\ distance = -1
    /\ distance_along_segment = <<>>
    /\ packagedata = <<>>
    /\ spc = "start"

StreamNext == AutoPass \/ ManualLinks \/ PackageData

SpecStream == StreamInit /\ [][StreamNext]_vars

----------------------------------------------------------------------------
(* The wrapping sequences: scenario (ex-gwt-prudic2004t2.py, 804-809),
   simulation (ex-gwf-maw-p02.py, 426-435) and the main block of
   ex-gwt-gwtgwt-p10.py (1138-1141) *)

Scripts == {"ex-gwf-maw-p02", "ex-gwt-prudic2004t2", "ex-gwt-gwtgwt-p10"}

\* the switches of the config module and whether the interpreter executes
\* assert statements (python -O drops them)
Configs ==
    [buildModel : BOOLEAN, writeModel : BOOLEAN, runModel : BOOLEAN,
     plotModel : BOOLEAN, asserts : BOOLEAN]

\* number of solver runs of run_model: the flow and the transport
\* simulation in ex-gwt-prudic2004t2, one simulation elsewhere
SolverRuns(s) == IF s = "ex-gwt-prudic2004t2" THEN {1, 2} ELSE {1}

\* number of False flags among the reports: one print(buff) each
Failures(oks) == Cardinality({k \in DOMAIN oks : ~oks[k]})

\* the flag run_model returns after the solver reported oks: each
\* "success, buff = ...run_simulation()" overwrites the one before
ReturnedFlag(oks) == oks[Len(oks)]

\* build_model: the simulation objects if config.buildModel, else None
BuildModel ==
    /\ opc = "build"
    /\ steps' = Append(steps, "build_model")
    /\ sims' = IF cfg.buildModel THEN "sims" ELSE "None"
    /\ opc' = IF script = "ex-gwt-gwtgwt-p10" THEN "run" ELSE "write"
    /\ UNCHANGED <<script, cfg, success, printed, solver>>
    /\ UNCHANGED <<lakevars, streamvars, frames, gridvars, rstvars>>

\* write_model: with config.writeModel, None has no write_simulation and
\* cannot be unpacked
WriteModel ==
    /\ opc = "write"
    /\ steps' = Append(steps, "write_model")
    /\ opc' = IF cfg.writeModel /\ sims = "None" THEN "raised" ELSE "run"
    /\ UNCHANGED <<script, cfg, sims, success, printed, solver>>
    /\ UNCHANGED <<lakevars, streamvars, frames, gridvars, rstvars>>

\* AfterRun going on to plot_results whatever run_model returned
AfterRun_AlwaysPlot(s, ok) ==
    IF s = "ex-gwf-maw-p02" THEN "assert" ELSE "plot"

\* where the wrapper continues once run_model has returned ok:
\* simulation asserts, scenario tests "if success:", main goes on
AfterRun(s, ok) ==
    IF s = "ex-gwf-maw-p02" THEN "assert"
    ELSE IF s = "ex-gwt-prudic2004t2" THEN (IF ok THEN "plot" ELSE "done")
    ELSE "plot"

\* run_model: True without config.runModel; else every simulation is
\* run, a False report prints the buffer, the last report is returned
RunModel ==
    /\ opc = "run"
    /\ steps' = Append(steps, "run_model")
    /\ IF ~cfg.runModel
       THEN /\ success' = TRUE
            /\ opc' = AfterRun(script, TRUE)
            /\ UNCHANGED <<printed, solver>>
       ELSE IF sims = "None"
       THEN /\ opc' = "raised"
            /\ UNCHANGED <<success, printed, solver>>
       ELSE \E oks \in [SolverRuns(script) -> BOOLEAN] :
               /\ solver' = oks
               /\ printed' = printed + Failures(oks)
               /\ success' = ReturnedFlag(oks)
               /\ opc' = AfterRun(script, ReturnedFlag(oks))
    /\ UNCHANGED <<script, cfg, sims>>
    /\ UNCHANGED <<lakevars, streamvars, frames, gridvars, rstvars>>

\* simulation: assert success, "could not run..."; if success: ...
AssertSuccess ==
    /\ opc = "assert"
    /\ opc' = IF cfg.asserts /\ ~success THEN "raised"
              ELSE IF success THEN "plot" ELSE "done"
    /\ UNCHANGED <<script, cfg, sims, success, printed, solver, steps>>
    /\ UNCHANGED <<lakevars, streamvars, frames, gridvars, rstvars>>

\* plot_results: with config.plotModel the plots read the simulation
\* objects, which None does not provide
PlotResults ==
    /\ opc = "plot"
    /\ steps' = Append(steps, "plot_results")
    /\ opc' = IF cfg.plotModel /\ sims = "None" THEN "raised" ELSE "done"
    /\ UNCHANGED <<script, cfg, sims, success, printed, solver>>
    /\ UNCHANGED <<lakevars, streamvars, frames, gridvars, rstvars>>

\* a script is started under any setting of the switches
RunInit ==
    /\ LakeIdle /\ StreamIdle /\ FramesIdle /\ GridIdle /\ RstIdle
    /\ script \in Scripts
    /\ cfg \in Configs
    /\ opc = "build"
    /\ sims = "None"
    /\ success = FALSE
    /\ printed = 0
    /\ solver = <<>>
    /\ steps = <<>>

RunNext ==
    BuildModel \/ WriteModel \/ RunModel \/ AssertSuccess \/ PlotResults

SpecRun == RunInit /\ [][RunNext]_vars

----------------------------------------------------------------------------
(* build_model of ex-gwt-gwtgwt-p10.py (lines 200-238): add_flow with the
   constant heads of add_outer_gwfmodel and the exchange list, then
   add_transport *)

\* nlay = 4
nlay == 4
\* nrow = 61 of the outer model
nrow_out == 61
\* ncol = 40 of the outer model
ncol_out == 40
\* nrow_inn = 45
nrow_inn == 45
\* ncol_inn = 28
ncol_inn == 28

\* idomain = np.ones(...); idomain[:, 8:53, 6:34] = 0
idomain_out(k, i, j) ==
    IF 8 <= i /\ i < 53 /\ 6 <= j /\ j < 34 THEN 0 ELSE 1

\* the n-th record (from 0) of the loops of lines 370-385 with the top
\* and bottom rows running over all the columns
ChdAt_WithCorners(n) ==
    LET per == 2 * nrow_out + 2 * (ncol_out - 2)
        k == n \div per
        r == n % per
    IN IF r < 2 * nrow_out
       THEN [cellid |-> <<k, r \div 2,
                          IF r % 2 = 0 THEN 0 ELSE ncol_out - 1>>,
             conc |-> 0]
       ELSE LET q == r - 2 * nrow_out
            IN [cellid |-> <<k, IF q % 2 = 0 THEN 0 ELSE nrow_out - 1,
                             q \div 2>>,
                conc |-> 0]

\* the n-th record (from 0) appended by the loops of lines 370-385: per
\* layer k, for each row i the cells (k, i, 0) and (k, i, ncol - 1), then
\* for each column j of 1 .. ncol - 2 the cells (k, 0, j), (k, nrow - 1, j)
ChdAt(n) ==
    LET per == 2 * nrow_out + 2 * (ncol_out - 2)
        k == n \div per
        r == n % per
    IN IF r < 2 * nrow_out
       THEN [cellid |-> <<k, r \div 2,
                          IF r % 2 = 0 THEN 0 ELSE ncol_out - 1>>,
             conc |-> 0]
       ELSE LET q == r - 2 * nrow_out
            IN [cellid |-> <<k, IF q % 2 = 0 THEN 0 ELSE nrow_out - 1,
                             1 + q \div 2>>,
                conc |-> 0]

\* number of records the loops of lines 370-385 append
ChdCount == nlay * (2 * nrow_out + 2 * (ncol_out - 2))

\* an exchange record: (cellidm1, cellidm2, 1, 50.0, 25.0, 50.0, angle, 75.0)
ExgRec(m1, m2, angldegx) ==
    [cellidm1 |-> m1, cellidm2 |-> m2, ihc |-> 1, cl1 |-> 50, cl2 |-> 25,
     hwva |-> 50, angldegx |-> angldegx, cdist |-> 75]

\* line 272 ("east")
EastRec(ilay, irow) ==
    ExgRec(<<ilay, irow + 8, 5>>, <<ilay, irow, 0>>, 0)

\* WestRec pairing the inner cell with the outer cell of its own column
WestRec_Inside(ilay, irow) ==
    ExgRec(<<ilay, irow + 8, ncol_out - 7>>, <<ilay, irow, ncol_inn - 1>>, 180)

\* lines 277-278 ("west")
WestRec(ilay, irow) ==
    ExgRec(<<ilay, irow + 8, ncol_out - 6>>, <<ilay, irow, ncol_inn - 1>>, 180)

\* line 283 ("north")
NorthRec(ilay, icol) ==
    ExgRec(<<ilay, 7, icol + 6>>, <<ilay, 0, icol>>, 270)

\* lines 287-289 ("south")
SouthRec(ilay, icol) ==
    ExgRec(<<ilay, nrow_out - 8, icol + 6>>, <<ilay, nrow_inn - 1, icol>>, 90)

\* the n-th record (from 0) appended by the four loop nests of lines
\* 268-289
ExgAt(n) ==
    LET side == nlay * nrow_inn
        edge == nlay * ncol_inn
    IN IF n < side THEN EastRec(n \div nrow_inn, n % nrow_inn)
       ELSE IF n < 2 * side
            THEN WestRec((n - side) \div nrow_inn, (n - side) % nrow_inn)
       ELSE IF n < 2 * side + edge
            THEN NorthRec((n - 2 * side) \div ncol_inn,
                          (n - 2 * side) % ncol_inn)
       ELSE SouthRec((n - 2 * side - edge) \div ncol_inn,
                     (n - 2 * side - edge) % ncol_inn)

\* number of records the four loop nests append
ExgCount == 2 * nlay * nrow_inn + 2 * nlay * ncol_inn

\* build_model with the two calls exchanged
BuildSteps_TransportFirst == <<"add_transport", "add_flow">>

\* lines 217-218: add_flow(sim); add_transport(sim)
BuildSteps == <<"add_flow", "add_transport">>

\* where build_model stands when it enters its k-th step
EnterStep(k) ==
    IF k > Len(BuildSteps) THEN "done"
    ELSE IF BuildSteps[k] = "add_flow" THEN "chd" ELSE "gwtgwt"

\* lines 200-216: return at once without config.buildModel
BuildModelP10 ==
    /\ gpc = "start"
    /\ IF buildModel
       THEN gpc' = EnterStep(1) /\ bstep' = 1
       ELSE gpc' = "done" /\ bstep' = 0
    /\ UNCHANGED <<buildModel, chdspd, exgdata, gwfgwf, gwtgwt>>
    /\ UNCHANGED <<lakevars, streamvars, frames, runvars, rstvars>>

\* add_outer_gwfmodel, one append of the loops of lines 370-385
ChdStep ==
    /\ gpc = "chd"
    /\ chdspd' = Append(chdspd, ChdAt(Len(chdspd)))
    /\ gpc' = IF Len(chdspd) + 1 = ChdCount THEN "lgr" ELSE "chd"
    /\ UNCHANGED <<buildModel, bstep, exgdata, gwfgwf, gwtgwt>>
    /\ UNCHANGED <<lakevars, streamvars, frames, runvars, rstvars>>

\* line 267: exgdata = []
BeginExchange ==
    /\ gpc = "lgr"
    /\ exgdata' = PyList(<<>>)
    /\ gpc' = "exg"
    /\ UNCHANGED <<buildModel, bstep, chdspd, gwfgwf, gwtgwt>>
    /\ UNCHANGED <<lakevars, streamvars, frames, runvars, rstvars>>

\* one append of the loops of lines 268-289
ExgStep ==
    /\ gpc = "exg"
    /\ exgdata' = PyList(Append(exgdata.items, ExgAt(Len(exgdata.items))))
    /\ gpc' = IF Len(exgdata.items) + 1 = ExgCount THEN "gwfgwf" ELSE "exg"
    /\ UNCHANGED <<buildModel, bstep, chdspd, gwfgwf, gwtgwt>>
    /\ UNCHANGED <<lakevars, streamvars, frames, runvars, rstvars>>

\* lines 291-302: ModflowGwfgwf(nexg=len(exgdata), exchangedata=exgdata);
\* add_flow returns
MakeGwfGwf ==
    /\ gpc = "gwfgwf"
    /\ gwfgwf' = Package(exgdata.items)
    /\ gpc' = EnterStep(bstep + 1)
    /\ bstep' = bstep + 1
    /\ UNCHANGED <<buildModel, chdspd, exgdata, gwtgwt>>
    /\ UNCHANGED <<lakevars, streamvars, frames, runvars, rstvars>>

\* lines 559-571: assert exgdata is not None; ModflowGwtgwt(
\* nexg=len(exgdata), exchangedata=exgdata); add_transport returns.
\* On None the assert raises, and without asserts len(None) does
MakeGwtGwt ==
    /\ gpc = "gwtgwt"
    /\ IF exgdata.isNone
       THEN /\ gpc' = "raised"
            /\ UNCHANGED <<bstep, gwtgwt>>
       ELSE /\ gwtgwt' = Package(exgdata.items)
            /\ gpc' = EnterStep(bstep + 1)
            /\ bstep' = bstep + 1
    /\ UNCHANGED <<buildModel, chdspd, exgdata, gwfgwf>>
    /\ UNCHANGED <<lakevars, streamvars, frames, runvars, rstvars>>

\* the script at import, config.buildModel either way
GridInit ==
    /\ LakeIdle /\ StreamIdle /\ FramesIdle /\ RunIdle /\ RstIdle
    /\ buildModel \in BOOLEAN
    /\ gpc = "start"
    /\ bstep = 0
    /\ chdspd = <<>>
    /\ exgdata = None
    /\ gwfgwf = NoPackage
    /\ gwtgwt = NoPackage

GridNext ==
    \/ BuildModelP10
    \/ ChdStep
    \/ BeginExchange
    \/ ExgStep
    \/ MakeGwfGwf
    \/ MakeGwtGwt

SpecGrid == GridInit /\ [][GridNext]_vars

----------------------------------------------------------------------------
(* ci_create_examples_rst.py: the editing loop over the lines of each
   example's pandoc output (lines 80-131) *)

\* number of examples of ex_list that are edited
MaxExamples == 2
\* number of lines of a pandoc output after the first six
MaxLines == 3

\* what a line holds of the tags the loop looks for: ":alt:", ":name:",
\* ".. container::", ".. container:: references hanging-indent", and
\* whether it is the heading the loop puts in place of the marker
Line(alt, name, cont, ref) ==
    [alt |-> alt, name |-> name, cont |-> cont, ref |-> ref,
     heading |-> FALSE]

PlainLine == Line(FALSE, FALSE, FALSE, FALSE)

\* "References Cited\n----------------\n\n"
Heading ==
    [alt |-> FALSE, name |-> FALSE, cont |-> FALSE, ref |-> FALSE,
     heading |-> TRUE]

\* the lines of the inputs: no tag, ":alt:", ":name:", both, a container
\* line, the references marker (which contains ".. container::")
LineKinds ==
    {PlainLine,
     Line(TRUE, FALSE, FALSE, FALSE),
     Line(FALSE, TRUE, FALSE, FALSE),
     Line(TRUE, TRUE, FALSE, FALSE),
     Line(FALSE, FALSE, TRUE, FALSE),
     Line(FALSE, FALSE, TRUE, TRUE)}

\* the pandoc outputs: five lines without tags, then a sixth line and
\* 1 .. MaxLines further lines of any kind
RstFiles ==
    UNION {{[k \in 1 .. 5 |-> PlainLine] \o body :
              body \in [1 .. n + 1 -> LineKinds]} : n \in 1 .. MaxLines}

\* WriteFlagAfter never set back by ":name:"
WriteFlagAfter_NoResume(w, l) ==
    IF l.alt THEN FALSE ELSE w

\* lines 103-109: ":alt:" clears the flag, then ":name:" sets a cleared
\* flag
WriteFlagAfter(w, l) ==
    LET w1 == IF l.alt THEN FALSE ELSE w
    IN IF ~w1 /\ l.name THEN TRUE ELSE w1

\* lines 111-113: the marker sets in_reference
ReferenceAfter(r, l) == r \/ l.ref

\* lines 95-101, 111-114 and 125-126: the text of the line after the
\* edits; the figure paths and the stripped indent hold none of the tags
EditedLine(l) == IF l.ref THEN Heading ELSE l

\* lines 116-123: in the references, "continue" on ".. container::" and
\* on ":name:", tested on the edited line
Skipped(r, l) == r /\ (EditedLine(l).cont \/ EditedLine(l).name)

\* lines 80-89: the next example's output is read, the file is opened for
\* writing, write_line = True, in_reference = False
OpenExample ==
    /\ lines = <<>>
    /\ exno < MaxExamples
    /\ lines' \in RstFiles
    /\ idx' = 0
    /\ write_line' = TRUE
    /\ in_reference' = FALSE
    /\ written' = <<>>
    /\ exno' = exno + 1
    /\ UNCHANGED <<lakevars, streamvars, frames, runvars, gridvars>>

\* one pass of the loop body, lines 90-129
EditLine ==
    /\ idx < Len(lines)
    /\ idx' = idx + 1
    /\ IF idx < 6
       THEN UNCHANGED <<write_line, in_reference, written>>
       ELSE LET l == lines[idx + 1]
                w == WriteFlagAfter(write_line, l)
                r == ReferenceAfter(in_reference, l)
            IN /\ write_line' = w
               /\ in_reference' = r
               /\ written' = IF ~Skipped(r, l) /\ w
                             THEN Append(written,
                                         [idx |-> idx, text |-> EditedLine(l)])
                             ELSE written
    /\ UNCHANGED <<lines, exno>>
    /\ UNCHANGED <<lakevars, streamvars, frames, runvars, gridvars>>

\* lines 131-135: the loop has ended, f.close(); the flags keep their
\* values until the next example sets them
CloseExample ==
    /\ lines # <<>>
    /\ idx = Len(lines)
    /\ lines' = <<>>
    /\ idx' = 0
    /\ written' = <<>>
    /\ UNCHANGED <<write_line, in_reference, exno>>
    /\ UNCHANGED <<lakevars, streamvars, frames, runvars, gridvars>>

\* before the loop over ex_list
RstInit ==
    /\ LakeIdle /\ StreamIdle /\ FramesIdle /\ RunIdle /\ GridIdle
    /\ lines = <<>>
    /\ idx = 0
    /\ write_line = TRUE
    /\ in_reference = FALSE
    /\ written = <<>>
    /\ exno = 0

RstNext == OpenExample \/ EditLine \/ CloseExample

SpecRst == RstInit /\ [][RstNext]_vars

----------------------------------------------------------------------------
(* Properties of get_lake_connection_data *)

Built == lpc = "built"

LakeCells == {c \in Cells : lakibd[c] > 0}

\* the four planar neighbours of c: back, left, right, front
Neighbours(c) ==
    {<<c[1] - 1, c[2]>>, <<c[1], c[2] - 1>>,
     <<c[1], c[2] + 1>>, <<c[1] + 1, c[2]>>}

\* t is in-bounds, not a lake cell and active in the idomain of the call
Connectable(t) == t \in Cells /\ lakibd[t] = 0 /\ arg_idomain[t] # 0

\* positions in the returned list of the records emitted for lake cell c
RecordsOf(c) ==
    {k \in DOMAIN lakeconnectiondata : origin[k][1] = c[1] /\ origin[k][2] = c[2]}

HorizontalTo(c, t) ==
    {k \in RecordsOf(c) :
        /\ lakeconnectiondata[k].claktype = "horizontal"
        /\ lakeconnectiondata[k].cellid = <<0, t[1], t[2]>>}

VerticalOf(c) ==
    {k \in RecordsOf(c) : lakeconnectiondata[k].claktype = "vertical"}

\* rank of a record in the scan: row-major cell, then back, left, right,
\* front, vertical
BranchRank(tag) ==
    CASE tag = "back" -> 0 [] tag = "left" -> 1 [] tag = "right" -> 2
      [] tag = "front" -> 3 [] tag = "vertical" -> 4

ScanRank(o) == (o[1] * ncol + o[2]) * 5 + BranchRank(o[3])

\* C1: for every lake cell and each of its four planar neighbours, exactly
\* one horizontal record targeting that neighbour (layer 0) is emitted iff
\* the neighbour is in-bounds, not a lake cell and active; no horizontal
\* record targets a lake cell or an inactive cell.
C1_HorizontalIffConnectable ==
    Built =>
      /\ \A c \in LakeCells : \A t \in Neighbours(c) :
            Cardinality(HorizontalTo(c, t)) = IF Connectable(t) THEN 1 ELSE 0
      /\ \A k \in DOMAIN lakeconnectiondata :
            lakeconnectiondata[k].claktype = "horizontal" =>
              LET t == <<lakeconnectiondata[k].cellid[2],
                         lakeconnectiondata[k].cellid[3]>>
              IN t \in Cells /\ lakibd[t] = 0 /\ arg_idomain[t] # 0

\* C2: the connection indices of each lake are 0,1,..,n-1 without gap or
\* repeat, increasing in list order, and the list is in scan order (cells
\* row-major, per cell back, left, right, front, vertical).
C2_IndicesContiguous ==
    Built =>
      /\ \A k \in DOMAIN lakeconnectiondata :
            lakeconnectiondata[k].iconn =
              Cardinality({m \in 1 .. k - 1 :
                  lakeconnectiondata[m].ilak = lakeconnectiondata[k].ilak})
      /\ \A k \in DOMAIN lakeconnectiondata : \A m \in DOMAIN lakeconnectiondata :
            k < m => ScanRank(origin[k]) < ScanRank(origin[m])
      /\ \A k \in DOMAIN lakeconnectiondata :
            /\ <<origin[k][1], origin[k][2]>> \in LakeCells
            /\ lakeconnectiondata[k].ilak = lakibd[<<origin[k][1], origin[k][2]>>] - 1

\* both lakes have records and lake 1's indices restart at 0 after lake 0
\* reached index 2 or more
C2_Witness ==
    /\ Built
    /\ \E k \in DOMAIN lakeconnectiondata : \E m \in DOMAIN lakeconnectiondata :
          /\ k < m
          /\ lakeconnectiondata[k].ilak = 0 /\ lakeconnectiondata[k].iconn >= 2
          /\ lakeconnectiondata[m].ilak = 1 /\ lakeconnectiondata[m].iconn >= 1

\* C3: every lake cell (i,j) gets exactly one vertical record, after that
\* cell's horizontal records, targeting (1,i,j), whatever its neighbours
\* are; no vertical record is emitted for a non-lake cell.
C3_OneVerticalPerLakeCell ==
    Built =>
      /\ \A c \in LakeCells :
            /\ Cardinality(VerticalOf(c)) = 1
            /\ \A k \in VerticalOf(c) :
                  /\ lakeconnectiondata[k].cellid = <<1, c[1], c[2]>>
                  /\ \A m \in RecordsOf(c) : m <= k
      /\ \A k \in DOMAIN lakeconnectiondata :
            lakeconnectiondata[k].claktype = "vertical" =>
              /\ <<origin[k][1], origin[k][2]>> \in LakeCells
              /\ lakeconnectiondata[k].cellid = <<1, origin[k][1], origin[k][2]>>

\* a lake cell with horizontal records and an inactive neighbour got its
\* vertical record last
C3_Witness ==
    /\ Built
    /\ \E c \in LakeCells :
          /\ Cardinality(RecordsOf(c)) >= 3
          /\ \E t \in Neighbours(c) : t \in Cells /\ arg_idomain[t] = 0
          /\ \E k \in VerticalOf(c) : \A m \in RecordsOf(c) : m <= k

\* C4: a lake cell whose four neighbours are all in-bounds, active and
\* non-lake gets exactly five records: four horizontal, one per neighbour,
\* and one vertical.
C4_FiveRecords ==
    Built =>
      \A c \in LakeCells :
        (\A t \in Neighbours(c) : Connectable(t)) =>
          /\ Cardinality(RecordsOf(c)) = 5
          /\ \A t \in Neighbours(c) : Cardinality(HorizontalTo(c, t)) = 1
          /\ Cardinality(VerticalOf(c)) = 1

\* C5: a lake cell with no active non-lake neighbour on any side gets
\* exactly one record, the vertical one.
C5_OnlyVertical ==
    Built =>
      \A c \in LakeCells :
        (\A t \in Neighbours(c) : ~Connectable(t)) =>
          /\ Cardinality(RecordsOf(c)) = 1
          /\ Cardinality(VerticalOf(c)) = 1

\* C6: a horizontal record toward row i-1 or i+1 carries (delc/2, delr),
\* one toward column j-1 or j+1 carries (delr/2, delc), a vertical record
\* carries (0, 0); every record carries lakebed_leakance and 0.0, 0.0 in
\* the reserved fields.
C6_Geometry ==
    Built =>
      \A k \in DOMAIN lakeconnectiondata :
        LET r == lakeconnectiondata[k]
            i == origin[k][1]
            j == origin[k][2]
        IN /\ r.bedleak = lakebed_leakance /\ r.belev = 0 /\ r.telev = 0
           /\ r.claktype \in {"horizontal", "vertical"}
           /\ r.claktype = "vertical" => r.connlen = 0 /\ r.connwidth = 0
           /\ r.claktype = "horizontal" =>
                /\ r.cellid \in {<<0, i - 1, j>>, <<0, i + 1, j>>,
                                 <<0, i, j - 1>>, <<0, i, j + 1>>}
                /\ r.cellid \in {<<0, i - 1, j>>, <<0, i + 1, j>>} =>
                      r.connlen * 2 = delc /\ r.connwidth = delr
                /\ r.cellid \in {<<0, i, j - 1>>, <<0, i, j + 1>>} =>
                      r.connlen * 2 = delr /\ r.connwidth = delc

\* one cell emitted a record toward a row neighbour, one toward its left
\* and one toward its right column neighbour
C6_Witness ==
    /\ Built
    /\ \E k \in DOMAIN lakeconnectiondata :
          lakeconnectiondata[k].cellid = <<0, origin[k][1] - 1, origin[k][2]>>
    /\ \E k \in DOMAIN lakeconnectiondata :
          lakeconnectiondata[k].cellid = <<0, origin[k][1], origin[k][2] - 1>>
    /\ \E k \in DOMAIN lakeconnectiondata :
          lakeconnectiondata[k].cellid = <<0, origin[k][1], origin[k][2] + 1>>

\* C7: nlakecon[L] is the number of returned records of lake L, the counts
\* sum to the length of the list, and build_mf6gwf passes nlakecon[L] as
\* lake L's number of connections.
C7_CountsMatch ==
    Built =>
      /\ \A l \in 0 .. NLakes - 1 :
            nlakecon[l] = Cardinality({k \in DOMAIN lakeconnectiondata :
                                          lakeconnectiondata[k].ilak = l})
      /\ nlakecon[0] + nlakecon[1] = Len(lakeconnectiondata)
      /\ Len(lakpackagedata) = NLakes
      /\ \A l \in 0 .. NLakes - 1 :
            /\ lakpackagedata[l + 1].lakeno = l
            /\ lakpackagedata[l + 1].nlakeconn = nlakecon[l]

\* two lakes with different, non-zero counts
C7_Witness ==
    /\ Built
    /\ nlakecon[0] >= 2 /\ nlakecon[1] >= 1 /\ nlakecon[0] # nlakecon[1]
    /\ lakpackagedata[2].nlakeconn = nlakecon[1]

----------------------------------------------------------------------------
(* Properties of get_stream_data *)

NReach == Len(streamdata)

\* reach r (r >= 1) has the segment id of reach r - 1
SameSeg(r) == streamdata[r + 1].seg = streamdata[r].seg

\* the entries of reach r's list after the leading self index
NeighboursOf(r) == Tail(connectiondata[r + 1])

\* how often v occurs in sequence q
Count(q, v) == Cardinality({k \in DOMAIN q : q[k] = v})

\* the reaches that carry an upstream entry naming their predecessor
AutoLinked == {r \in 1 .. NReach - 1 : Count(NeighboursOf(r), r - 1) > 0}

RECURSIVE TotalEntries(_)
TotalEntries(n) ==
    IF n = 0 THEN 0 ELSE TotalEntries(n - 1) + Len(NeighboursOf(n - 1))

\* the first reach of the group of linked reaches that holds reach r
GroupStart(r) ==
    CHOOSE s \in 0 .. r :
        /\ s \notin AutoLinked
        /\ \A m \in s + 1 .. r : m \in AutoLinked

SegIds == {streamdata[k].seg : k \in DOMAIN streamdata}

\* C8: after the automatic pass, reach r >= 1 holds r-1 as upstream entry
\* and reach r-1 holds -r as downstream entry iff reach r has the segment
\* id of reach r-1; the first reach and every reach starting a new segment
\* get no link to their predecessor.
C8_AutoLinkIffSameSegment ==
    spc = "auto" =>
      /\ Len(connectiondata) = NReach
      /\ \A r \in 0 .. NReach - 1 :
            connectiondata[r + 1] =
                 <<r>>
              \o (IF r >= 1 /\ SameSeg(r) THEN <<r - 1>> ELSE <<>>)
              \o (IF r + 1 < NReach /\ SameSeg(r + 1) THEN <<-(r + 1)>> ELSE <<>>)

\* a table where one reach continues its segment and a later one starts a
\* new segment
C8_Witness ==
    /\ spc = "auto"
    /\ \E r \in 1 .. NReach - 1 : \E q \in 1 .. NReach - 1 :
          /\ r < q /\ SameSeg(r) /\ ~SameSeg(q)
          /\ Count(NeighboursOf(r), r - 1) = 1
          /\ Count(NeighboursOf(q), q - 1) = 0

\* C9: before the manual links every reach belongs to exactly one segment
\* group (the reaches linked to one another are those of one segment id)
\* and the number of automatic links is the number of reaches minus the
\* number of distinct segment ids of the table.
C9_LinksReachesMinusSegments ==
    spc = "auto" =>
      /\ TotalEntries(NReach) = 2 * Cardinality(AutoLinked)
      /\ \A r \in 0 .. NReach - 1 : \A q \in 0 .. NReach - 1 :
            GroupStart(r) = GroupStart(q)
              <=> streamdata[r + 1].seg = streamdata[q + 1].seg
      /\ Cardinality(AutoLinked) = NReach - Cardinality(SegIds)

\* C10: the manual augmentation appends -31 to the list of reach 17, 17 and
\* then 30 to the list of reach 31, -31 to the list of reach 30, and leaves
\* every other list and all earlier entries as they were.
C10_ManualLinksFrame ==
    [][(spc = "auto" /\ NReach >= 32) =>
        /\ spc' = "manual"
        /\ Len(connectiondata') = Len(connectiondata)
        /\ connectiondata'[18] = connectiondata[18] \o <<-31>>
        /\ connectiondata'[31] = connectiondata[31] \o <<-31>>
        /\ connectiondata'[32] = connectiondata[32] \o <<17, 30>>
        /\ \A k \in DOMAIN connectiondata :
              k \notin {18, 31, 32} => connectiondata'[k] = connectiondata[k]]_vars

\* the links were appended to lists that already held automatic links
C10_Witness ==
    /\ spc = "manual"
    /\ Len(connectiondata[18]) >= 3
    /\ Len(connectiondata[31]) >= 3
    /\ Len(connectiondata[32]) >= 4
    /\ connectiondata[32][Len(connectiondata[32])] = 30

\* the distance pass has run
AutoDone == spc \in {"auto", "manual", "raised", "done"}

ReachLength(r) == streamdata[r + 1].length

\* the first reach of the run of equal consecutive segment ids holding r
RunStartOf(r) ==
    CHOOSE s \in 0 .. r :
        /\ s = 0 \/ ~SameSeg(s)
        /\ \A m \in s + 1 .. r : SameSeg(m)

\* total length of reaches a .. b - 1
RECURSIVE SumLength(_, _)
SumLength(a, b) == IF b <= a THEN 0 ELSE SumLength(a, b - 1) + ReachLength(b - 1)

\* C11: the distance of a reach is its cumulative midpoint position: half
\* its own length for the first reach of a segment, for a later reach the
\* previous distance plus half the previous and half its own length; the
\* running distance restarts at every segment change, and lengths 10, 20,
\* 30 ft at the start of a segment give 5, 20, 45 ft.
C11_CumulativeMidpoints ==
    AutoDone =>
      /\ Len(distance_along_segment) = NReach
      /\ \A r \in 0 .. NReach - 1 :
            /\ 2 * distance_along_segment[r + 1] =
                  2 * SumLength(RunStartOf(r), r) + ReachLength(r)
            /\ (r = 0 \/ ~SameSeg(r)) =>
                  2 * distance_along_segment[r + 1] = ReachLength(r)
            /\ (r >= 1 /\ SameSeg(r)) =>
                  2 * distance_along_segment[r + 1] =
                     2 * distance_along_segment[r]
                       + ReachLength(r - 1) + ReachLength(r)
      /\ \A r \in 0 .. NReach - 3 :
            ( /\ RunStartOf(r + 2) = r
              /\ ReachLength(r) = 20000 /\ ReachLength(r + 1) = 40000
              /\ ReachLength(r + 2) = 60000 ) =>
                /\ distance_along_segment[r + 1] = 10000
                /\ distance_along_segment[r + 2] = 40000
                /\ distance_along_segment[r + 3] = 90000

\* a segment of lengths 10, 20, 30 ft, and a later segment change at which
\* the distance fell back to half the reach's length
C11_Witness ==
    /\ AutoDone
    /\ NReach >= 8
    /\ ReachLength(0) = 20000 /\ RunStartOf(2) = 0
    /\ distance_along_segment[3] = 90000
    /\ \E r \in 3 .. NReach - 1 :
          /\ ~SameSeg(r)
          /\ 2 * distance_along_segment[r + 1] = ReachLength(r)
          /\ distance_along_segment[r + 1] < distance_along_segment[r]

\* every reach of the segment of reach r has a positive length
SegmentPositive(r) ==
    \A k \in DOMAIN streamdata :
        streamdata[k].seg = streamdata[r + 1].seg => streamdata[k].length > 0

\* C12: for every reach of a segment with positive reach lengths (and
\* emax >= emin), the channel-top elevation lies within [emin, emax] and
\* does not increase from one reach to the next within the segment.
C12_TopWithinBounds ==
    spc = "done" =>
      \A r \in 0 .. NReach - 1 :
        SegmentPositive(r) =>
          LET rtp == packagedata[r + 1].rtp
              emax == emaxmin[streamdata[r + 1].seg][1]
              emin == emaxmin[streamdata[r + 1].seg][2]
          IN /\ emax >= emin
             /\ rtp.k = "fin" /\ rtp.den > 0
             /\ emin * rtp.den <= rtp.num /\ rtp.num <= emax * rtp.den
             /\ (r >= 1 /\ SameSeg(r)) =>
                   LET prev == packagedata[r].rtp
                   IN prev.k = "fin" /\ prev.den = rtp.den
                      /\ rtp.num <= prev.num

\* a reach whose top elevation is strictly below its predecessor's and
\* strictly inside the segment's elevation range
C12_Witness ==
    /\ spc = "done"
    /\ \E r \in 1 .. NReach - 1 :
          /\ SegmentPositive(r) /\ SameSeg(r)
          /\ packagedata[r + 1].rtp.k = "fin"
          /\ packagedata[r + 1].rtp.den = packagedata[r].rtp.den
          /\ packagedata[r + 1].rtp.num < packagedata[r].rtp.num
          /\ emaxmin[streamdata[r + 1].seg][2] * packagedata[r + 1].rtp.den
                < packagedata[r + 1].rtp.num

\* C13: packagedata holds one record per reach in table order, record k
\* carries reach id k, its connection count is the number of neighbours of
\* reach k in the returned connectiondata (manual links included), and
\* packagedata and connectiondata have the same length.
C13_OneRecordPerReach ==
    spc = "done" =>
      /\ Len(packagedata) = NReach
      /\ Len(connectiondata) = Len(packagedata)
      /\ \A r \in 0 .. NReach - 1 :
            /\ packagedata[r + 1].rno = r
            /\ connectiondata[r + 1][1] = r
            /\ packagedata[r + 1].ncon = Len(NeighboursOf(r))
            /\ packagedata[r + 1].rlen = ReachLength(r)
            /\ packagedata[r + 1].boundname = <<"SEG", streamdata[r + 1].seg>>

\* reach 31 counts its manual links, the first reach its one neighbour
C13_Witness ==
    /\ spc = "done"
    /\ packagedata[32].ncon >= 3
    /\ Count(NeighboursOf(31), 17) = 1
    /\ packagedata[1].ncon = 1
    /\ \E r \in 0 .. NReach - 1 : packagedata[r + 1].ncon = 2

\* C15: on a segment whose total length is zero (all its reach lengths
\* zero, or no reach of the segment in the table) get_stream_data fails;
\* it never returns a record whose slope or top elevation comes from a
\* division by zero.
C15_ZeroLengthRejected ==
    spc = "done" =>
      /\ \A iseg \in 1 .. NSeg : SegmentLength(streamdata, iseg, NReach) > 0
      /\ \A k \in DOMAIN packagedata :
            packagedata[k].rgrd.k = "fin" /\ packagedata[k].rtp.k = "fin"

\* the reaches of every segment id are consecutive in the table
Contiguous ==
    \A a \in DOMAIN streamdata : \A b \in DOMAIN streamdata :
        (a < b /\ streamdata[a].seg = streamdata[b].seg) =>
            \A m \in a .. b : streamdata[m].seg = streamdata[a].seg

\* C16: on a malformed reach table (reaches of one segment not contiguous,
\* a segment id outside 1..4, or fewer than 32 reaches) get_stream_data
\* fails and returns no connectivity lists.
C16_MalformedTableRejected ==
    spc = "done" =>
      /\ Contiguous
      /\ SegIds \subseteq 1 .. NSeg
      /\ NReach >= 32

----------------------------------------------------------------------------
(* Malformed lake grids *)

\* C14: on a malformed grid (a lake value with no slot in the two-entry
\* count list, or a negative value) get_lake_connection_data fails before
\* any record is emitted: it never returns records for such a grid and
\* never attributes a negative value to an existing lake.
C14_MalformedGridRejected ==
    (lpc # "init" /\ \E c \in Cells : lakibd[c] \notin 0 .. NLakes) =>
      /\ lpc = "raised"
      /\ lakeconnectiondata = <<>>
      /\ \A l \in 0 .. NLakes - 1 : nlakecon[l] = 0

----------------------------------------------------------------------------
(* Repeated and interleaved calls of get_lake_connection_data *)

\* C17: whatever the order in which the steps of the two calls are taken,
\* no step changes lakibd or idomain, and a call that returns holds the
\* record list and the per-lake counts of a single call on these grids
C17_CallsIndependent ==
    [][/\ lakibd' = lakibd
       /\ idomain' = idomain
       /\ \A p \in DOMAIN frames' :
             frames'[p].n = nrow * ncol =>
               \E r \in {get_lake_connection_data(lakibd, idomain)} :
                  /\ frames'[p].acc.lakeconnectiondata = r.lakeconnectiondata
                  /\ frames'[p].acc.nlakecon = r.nlakecon]_vars

\* both calls have returned records of both lakes
C17_Witness ==
    /\ frames # <<>>
    /\ \A p \in DOMAIN frames :
          /\ frames[p].n = nrow * ncol
          /\ \A l \in 0 .. NLakes - 1 : frames[p].acc.nlakecon[l] > 0

----------------------------------------------------------------------------
(* Solver failures and the order of the steps *)

\* a wrapper has ended, normally or by an exception
Ended == opc \in {"done", "raised"}

SolverFailed == \E k \in DOMAIN solver : ~solver[k]

\* C18: in every script, when a solver run has reported failure, run_model
\* returns False, the diagnostic text is printed and the wrapper ends
\* without raising
C18_FailureReportedNotFatal ==
    (Ended /\ SolverFailed) =>
      /\ success = FALSE
      /\ printed >= 1
      /\ opc # "raised"

\* run_model of ex-gwt-prudic2004t2 has returned under config.runModel
PrudicRan ==
    /\ script = "ex-gwt-prudic2004t2"
    /\ cfg.runModel
    /\ solver # <<>>

\* C19: with config.runModel set, run_model of ex-gwt-prudic2004t2 returns
\* True exactly when both the flow and the transport run reported success
C19_TrueIffBothSucceeded ==
    PrudicRan => (success <=> \A k \in DOMAIN solver : solver[k])

StepOrder == <<"build_model", "write_model", "run_model", "plot_results">>

\* C20: in scenario and simulation the steps taken so far are an initial
\* part of build_model, write_model, run_model, plot_results, and
\* plot_results is taken only after run_model returned True
C20_StepsInOrder ==
    script \in {"ex-gwt-prudic2004t2", "ex-gwf-maw-p02"} =>
      /\ Len(steps) <= Len(StepOrder)
      /\ \A k \in 1 .. Len(steps) : steps[k] = StepOrder[k]
      /\ Len(steps) = Len(StepOrder) => success = TRUE

\* scenario has gone through all four steps after two successful runs
C20_Witness ==
    /\ script = "ex-gwt-prudic2004t2"
    /\ opc = "done"
    /\ steps = StepOrder
    /\ solver = <<TRUE, TRUE>>

----------------------------------------------------------------------------
(* Symmetry of the stream connectivity *)

\* b is an upstream entry of reach a: a non-negative entry after the
\* leading self index
UpstreamOf(a, b) ==
    /\ b >= 0
    /\ \E m \in 2 .. Len(connectiondata[a + 1]) : connectiondata[a + 1][m] = b

\* a is a downstream entry of reach b: -a, negative, after the self index
DownstreamOf(b, a) ==
    /\ a > 0
    /\ \E m \in 2 .. Len(connectiondata[b + 1]) : connectiondata[b + 1][m] = -a

\* C25: after the automatic pass and the manual links, reach a lists b as
\* upstream neighbour iff reach b lists -a as downstream neighbour, every
\* downstream entry is strictly negative and every list starts with its
\* own reach index.  The equivalence is checked entry by entry: every
\* upstream entry b of a list a has its downstream entry -a in list b,
\* and every downstream entry -b of a list a has its upstream entry a in
\* list b.
C25_ConnectivitySymmetric ==
    spc \in {"manual", "done"} =>
      \A a \in 0 .. NReach - 1 :
         /\ connectiondata[a + 1][1] = a
         /\ \A k \in 2 .. Len(connectiondata[a + 1]) :
               LET e == connectiondata[a + 1][k] IN
               /\ -NReach < e /\ e < NReach
               /\ e >= 0 => (UpstreamOf(a, e) /\ DownstreamOf(e, a))
               /\ e < 0 => (DownstreamOf(a, -e) /\ UpstreamOf(-e, a))

\* reach 31 lists 17 and 30, reaches 17 and 30 list -31, next to links of
\* the automatic pass
C25_Witness ==
    /\ spc = "manual"
    /\ UpstreamOf(31, 17) /\ DownstreamOf(17, 31)
    /\ UpstreamOf(31, 30) /\ DownstreamOf(30, 31)
    /\ UpstreamOf(1, 0) /\ DownstreamOf(0, 1)
    /\ UpstreamOf(18, 17)

----------------------------------------------------------------------------
(* Repeated build_mf6gwf *)

\* C26: a second build_mf6gwf in the same process, run on the global
\* idomain the first one left behind, yields the lake connection list
\* and the per-lake counts of the first
C26_BuildRepeatable ==
    [][lpc = "built" =>
        /\ lakeconnectiondata' = lakeconnectiondata
        /\ nlakecon' = nlakecon]_vars

----------------------------------------------------------------------------
(* Exchange lists and constant heads of ex-gwt-gwtgwt-p10 *)

\* C21: when add_transport has built the GWT-GWT exchange, exgdata was a
\* list (the assertion did not fail), and the exchange holds the list of
\* the GWF-GWF exchange: nexg = 2 * nlay * (nrow_inn + ncol_inn) = 584 and
\* the same records in the same order
C21_TransportSharesExchange ==
    /\ gpc # "raised"
    /\ gwtgwt.built =>
         /\ ~exgdata.isNone
         /\ gwfgwf.built
         /\ gwtgwt.nexg = 2 * nlay * (nrow_inn + ncol_inn)
         /\ gwtgwt.nexg = 584
         /\ gwtgwt.nexg = gwfgwf.nexg
         /\ gwtgwt.exchangedata = gwfgwf.exchangedata
         /\ gwtgwt.exchangedata = exgdata.items

\* build_model has returned with both exchanges built
C21_Witness ==
    /\ gpc = "done"
    /\ gwtgwt.built
    /\ Len(gwtgwt.exchangedata) = 584
    /\ gwtgwt.exchangedata[439] = gwfgwf.exchangedata[439]

ChdComplete == gpc \notin {"idle", "start", "chd"} /\ chdspd # <<>>

PerimeterCells ==
    {c \in (0 .. nlay - 1) \X (0 .. nrow_out - 1) \X (0 .. ncol_out - 1) :
        c[2] = 0 \/ c[2] = nrow_out - 1 \/ c[3] = 0 \/ c[3] = ncol_out - 1}

ChdCells == {chdspd[n].cellid : n \in DOMAIN chdspd}

\* C22: the constant-head list holds every perimeter cell of every layer
\* exactly once, corners included once, and no interior cell; its length
\* is nlay * (2 * nrow + 2 * (ncol - 2))
C22_ChdPerimeterOnce ==
    /\ Cardinality(ChdCells) = Len(chdspd)
    /\ ChdCells \subseteq PerimeterCells
    /\ ChdComplete =>
         /\ ChdCells = PerimeterCells
         /\ Len(chdspd) = nlay * (2 * nrow_out + 2 * (ncol_out - 2))

\* the list is complete and holds the four corners of the last layer
C22_Witness ==
    /\ ChdComplete
    /\ Len(chdspd) = 792
    /\ {<<nlay - 1, 0, 0>>, <<nlay - 1, 0, ncol_out - 1>>,
        <<nlay - 1, nrow_out - 1, 0>>,
        <<nlay - 1, nrow_out - 1, ncol_out - 1>>} \subseteq ChdCells

ExgComplete ==
    ~exgdata.isNone /\ gpc \notin {"idle", "start", "chd", "lgr", "exg"}

ExgRecords == exgdata.items

\* the cells of the inner model on its outer rows and columns
InnerBoundary ==
    {c \in (0 .. nlay - 1) \X (0 .. nrow_inn - 1) \X (0 .. ncol_inn - 1) :
        c[2] = 0 \/ c[2] = nrow_inn - 1 \/ c[3] = 0 \/ c[3] = ncol_inn - 1}

InnerCorners ==
    {c \in InnerBoundary :
        c[2] \in {0, nrow_inn - 1} /\ c[3] \in {0, ncol_inn - 1}}

\* cells (i1, j1) and (i2, j2) share a face
FaceNeighbours(i1, j1, i2, j2) ==
    \/ i1 = i2 /\ (j1 = j2 + 1 \/ j2 = j1 + 1)
    \/ j1 = j2 /\ (i1 = i2 + 1 \/ i2 = i1 + 1)

ExgPairs ==
    {<<ExgRecords[n].cellidm1, ExgRecords[n].cellidm2>> :
        n \in DOMAIN ExgRecords}

\* C27: every exchange record pairs, in one layer, an active outer cell
\* outside the deactivated block with an inner boundary cell whose place
\* in the outer grid (row + 8, column + 6) is a face neighbour of it; no
\* pair occurs twice; in the complete list every inner boundary cell
\* occurs, the corner cells exactly twice
C27_ExchangePairsNeighbours ==
    /\ \A n \in DOMAIN ExgRecords :
          LET o == ExgRecords[n].cellidm1
              c == ExgRecords[n].cellidm2
          IN /\ o[1] = c[1]
             /\ o[1] \in 0 .. nlay - 1
             /\ o[2] \in 0 .. nrow_out - 1 /\ o[3] \in 0 .. ncol_out - 1
             /\ idomain_out(o[1], o[2], o[3]) = 1
             /\ ~(o[2] \in 8 .. 52 /\ o[3] \in 6 .. 33)
             /\ c \in InnerBoundary
             /\ FaceNeighbours(o[2], o[3], c[2] + 8, c[3] + 6)
    /\ Cardinality(ExgPairs) = Len(ExgRecords)
    /\ ExgComplete =>
         /\ {p[2] : p \in ExgPairs} = InnerBoundary
         /\ \A c \in InnerCorners :
               Cardinality({p \in ExgPairs : p[2] = c}) = 2

\* the complete list, with both records of the last inner corner
C27_Witness ==
    /\ ExgComplete
    /\ Len(ExgRecords) = 584
    /\ Cardinality({p \in ExgPairs :
                      p[2] = <<nlay - 1, nrow_inn - 1, ncol_inn - 1>>}) = 2

----------------------------------------------------------------------------
(* The line filter of ci_create_examples_rst *)

\* line k (from 0) of the current file has been written
Written(k) == \E n \in DOMAIN written : written[n].idx = k

\* the lines after the title that the loop has gone through
Edited == 6 .. idx - 1

\* the marker lines among them
Markers == {m \in Edited : lines[m + 1].ref}

\* line k is not in the references: no marker up to and including k
OutsideReferences(k) == \A m \in Markers : m > k

\* line k lies between a line with ":alt:" and the next line with
\* ":name:", the first included and the second not
Suppressed(k) ==
    \E a \in 6 .. k :
       /\ lines[a + 1].alt
       /\ \A m \in a .. k : ~lines[m + 1].name

\* C23: outside the references, the first six lines of an output are
\* never written, a later line is left out exactly when it lies between
\* an ":alt:" line (included) and the next ":name:" line (not included),
\* and the write flag is True when a file is begun
C23_AltToNameSuppressed ==
    /\ \A k \in 0 .. idx - 1 : k < 6 => ~Written(k)
    /\ \A k \in Edited :
          OutsideReferences(k) => (Written(k) <=> ~Suppressed(k))
    /\ (lines # <<>> /\ idx = 0) => write_line
    /\ \A n \in DOMAIN written :
          OutsideReferences(written[n].idx) =>
             written[n].text = lines[written[n].idx + 1]

\* a file in which a line was left out after ":alt:" and the ":name:"
\* line after it was written
C23_Witness ==
    /\ idx = Len(lines)
    /\ Markers = {}
    /\ \E a \in Edited : \E b \in Edited :
          /\ a < b
          /\ lines[a + 1].alt /\ ~lines[a + 1].name
          /\ lines[b + 1].name
          /\ ~Written(a)
          /\ Written(b)
          /\ \A m \in a .. b - 1 : ~Written(m)

\* C24: from the marker line on in_reference is True for the rest of the
\* file and False when the next example is begun; the marker line is
\* written as the heading, and after it no line with ".. container::" or
\* ":name:" is written
C24_ReferencesMode ==
    /\ (lines # <<>> /\ idx = 0) => ~in_reference
    /\ lines # <<>> => (in_reference <=> Markers # {})
    /\ \A m \in Markers :
          \E n \in DOMAIN written :
             written[n].idx = m /\ written[n].text = Heading
    /\ \A n \in DOMAIN written :
          ~OutsideReferences(written[n].idx) =>
             /\ ~written[n].text.cont
             /\ ~written[n].text.name
             /\ (lines[written[n].idx + 1].cont
                    => written[n].text = Heading)
             /\ ~lines[written[n].idx + 1].name

====
